---- MODULE Spec2Model ----
(***************************************************************************)
(* Model of bot.py: an Advent-of-Code leaderboard poller that announces    *)
(* newly earned stars to a Slack webhook and keeps the last announced      *)
(* snapshot in a JSON state file.                                          *)
(*                                                                         *)
(* The process is modelled step by step (main, job_check_new_stars,        *)
(* save_star_set) so that process kills and uncaught exceptions can fall   *)
(* between the Slack posts and the write of the state file.                *)
(***************************************************************************)
EXTENDS Integers, Sequences, FiniteSets, TLC

VARIABLES
    remote,     \* completion entries currently on the remote leaderboard
    file,       \* STATE_FILE on disk
    pc,         \* position of the process
    err,        \* uncaught exception that ended the process ("none" if none)
    lb,         \* job_check_new_stars / main: fetched payload
    previous,   \* job_check_new_stars: loaded set
    todo,       \* job_check_new_stars: sorted new stars not yet iterated
    done,       \* job_check_new_stars: new stars already passed to slack_post
    failed,     \* new stars of this cycle whose slack_post failed (swallowed)
    star_set,   \* save_star_set: its argument
    caller,     \* who called save_star_set: "main", "job" or "none"
    announced,  \* per Fact: number of slack_post calls (saturating)
    sinceSeed,  \* history: "never", "seeded", "first_done", "later"
    seedLb,     \* history: payload main seeded the state file from
    kills,      \* number of process kills so far
    msg,        \* job_check_new_stars: the line handed to slack_post
    board,      \* the member records of the leaderboard payload, in order
    month,      \* local month when job_daily_summary runs
    out,        \* job_daily_summary: last line printed
    text,       \* job_daily_summary: lines of the last summary posted
    sumCalls,   \* job_daily_summary: fetch and slack_post calls (saturating)
    removed     \* number of stars the leaderboard dropped so far

\* what the change-detection steps and the process environment leave alone
env == <<board, month, out, text, sumCalls, removed>>

vars == <<remote, file, pc, err, lb, previous, todo, done, failed, star_set,
          caller, announced, sinceSeed, seedLb, kills, msg, env>>

----------------------------------------------------------------------------
(* Bounds of the model *)

MaxTs == 2
MaxStars == 2
MaxCount == 2
MaxKills == 1
MaxMembers == 3
MaxRemoved == 1

(* The payload universe *)

Members == {"1", "2"}
DayStrs == {"1"}
PartStrs == {"1", "2"}
Stamps == 1..MaxTs

\* info.get('get_star_ts') when the key is absent
None == 0 - 1

\* int(day_str), int(part_str)
int(s) == CASE s = "1" -> 1 [] s = "2" -> 2

Entries == [member : Members, day : DayStrs, part : PartStrs,
            ts : Stamps \cup {None}]

Facts == Members \X {int(d) : d \in DayStrs} \X (Stamps \cup {None})
                 \X {int(p) : p \in PartStrs}

Range(s) == {s[i] : i \in DOMAIN s}

(* The member records of the payload *)

IdStr == <<"1", "2", "3", "4", "5">>
Ids == {IdStr[i] : i \in 1..MaxMembers}

\* member.get("name"): key absent, JSON null, empty string, or a name
NoName == "<absent>"
NullName == "<null>"
Names == {NoName, NullName, "", "Ann"}
Scores == {10, 50}

MemberRecs == [id : Ids, name : Names, score : Scores]

\* members.values(): up to MaxMembers records with distinct ids
BoardsOf(recs) ==
    UNION {{b \in [1..n -> recs] :
               \A i, j \in 1..n : i # j => b[i].id # b[j].id}
           : n \in 0..MaxMembers}

\* the records served while the stars of members "1" and "2" are followed
HomeBoard ==
    <<[id |-> "1", name |-> "Ann", score |-> 50],
      [id |-> "2", name |-> NullName, score |-> 10]>>

NoMsg == <<>>

----------------------------------------------------------------------------
(* Pure functions of bot.py *)

\* mutant: the part is not taken from the payload key
extract_star_set_OnePart(leaderboard_json) ==
    {<<e.member, int(e.day), e.ts, 1>> : e \in leaderboard_json}

extract_star_set(leaderboard_json) ==
    {<<e.member, int(e.day), e.ts, int(e.part)>> : e \in leaderboard_json}

\* Python's < on two str ids of the universe (single digits)
StrLess(a, b) == int(a) < int(b)

\* Python's tuple comparison a < b raises TypeError when the first differing
\* position holds None on one side
TupleRaises(a, b) ==
    /\ a[1] = b[1] /\ a[2] = b[2] /\ a[3] # b[3]
    /\ (a[3] = None \/ b[3] = None)

TupleLess(a, b) ==
    IF a[1] # b[1] THEN StrLess(a[1], b[1])
    ELSE IF a[2] # b[2] THEN a[2] < b[2]
    ELSE IF a[3] # b[3] THEN a[3] < b[3]
    ELSE a[4] < b[4]

\* sorted(star_set) at line 63 raises
SortRaises(S) == \E a, b \in S : TupleRaises(a, b)

RECURSIVE SortedRows(_)
SortedRows(S) ==
    IF S = {} THEN <<>>
    ELSE LET m == CHOOSE x \in S : \A y \in S \ {x} : TupleLess(x, y)
         IN  <<m>> \o SortedRows(S \ {m})

NoFile == [exists |-> FALSE, complete |-> FALSE, rows |-> <<>>]

\* mutant: json.load accepts whatever the file holds
LoadRaises_Never(f) == FALSE

\* json.load fails on a truncated or partial file
LoadRaises(f) == f.exists /\ ~f.complete

load_previous_star_set(f) ==
    IF ~f.exists THEN {}
    ELSE {<<r[1], r[2], r[3], r[4]>> : r \in Range(f.rows)}

Triple(f) == <<f[1], f[2], f[4]>>

\* mutant: the difference is taken on (member, day, part) only
new_stars_ByTriple(current, prev) ==
    {f \in current : \A g \in prev : Triple(g) # Triple(f)}

\* mutant: the difference is taken the wrong way round
new_stars_Reversed(current, prev) == prev \ current

\* current - previous, line 88: set difference of 4-tuples
new_stars(current, prev) == current \ prev

\* sorted(new_stars, key=lambda x: x[2]) raises
KeySortRaises(S) == Cardinality(S) >= 2 /\ \E f \in S : f[3] = None

\* the possible results of sorted(new_stars, key=lambda x: x[2])
KeySorted(S) ==
    {s \in [1..Cardinality(S) -> S] :
        /\ \A i, j \in DOMAIN s : i # j => s[i] # s[j]
        /\ \A i \in DOMAIN s : i > 1 => s[i-1][3] <= s[i][3]}

\* mutant: the name is used whenever the key is present
member_name_Raw(member) ==
    IF member.name = NoName THEN <<"Anonymous #", member.id>>
    ELSE IF member.name = NullName THEN <<"None">>
    ELSE <<member.name>>

\* member_name, lines 45-49: the text as a sequence of its pieces
member_name(member) ==
    IF member.name \in {NoName, NullName, ""}
        THEN <<"Anonymous #", member.id>>
        ELSE <<member.name>>

\* member_by_id.get(member_id), lines 93-99: keyed by str(m["id"])
member_by_id(members, member_id) ==
    {members[i] : i \in {j \in DOMAIN members : members[j].id = member_id}}

\* display_name, line 100
display_name(members, member_id) ==
    IF member_by_id(members, member_id) = {}
        THEN <<"Member ", member_id>>
        ELSE member_name(CHOOSE m \in member_by_id(members, member_id) : TRUE)

\* msg, lines 105-106
Message(members, f) ==
    [name |-> display_name(members, f[1]), day |-> f[2],
     part |-> IF f[4] = 1 THEN "Part 1" ELSE "Part 2", at |-> f[3]]

Bump(f) == [announced EXCEPT ![f] = IF @ < MaxCount THEN @ + 1 ELSE @]

----------------------------------------------------------------------------
Init ==
    /\ remote = {}
    /\ file = NoFile
    /\ pc = "main"
    /\ err = "none"
    /\ lb = {}
    /\ previous = {}
    /\ todo = <<>>
    /\ done = <<>>
    /\ failed = {}
    /\ star_set = {}
    /\ caller = "none"
    /\ announced = [f \in Facts |-> 0]
    /\ sinceSeed = "never"
    /\ seedLb = {}
    /\ kills = 0
    /\ msg = NoMsg
    /\ board = HomeBoard
    /\ month = 12
    /\ out = ""
    /\ text = <<>>
    /\ sumCalls = [fetch |-> 0, post |-> 0]
    /\ removed = 0

ResetLocals ==
    /\ lb' = {}
    /\ previous' = {}
    /\ todo' = <<>>
    /\ done' = <<>>
    /\ failed' = {}
    /\ star_set' = {}
    /\ caller' = "none"
    /\ msg' = NoMsg

\* an uncaught exception leaves main(): the process ends
Raise(e) ==
    /\ pc' = "exited"
    /\ err' = e
    /\ ResetLocals

----------------------------------------------------------------------------
(* The remote leaderboard *)

AddStar ==
    /\ Cardinality(remote) < MaxStars
    /\ \E e \in Entries :
        /\ \A x \in remote :
              ~(x.member = e.member /\ x.day = e.day /\ x.part = e.part)
        /\ remote' = remote \cup {e}
    /\ UNCHANGED <<file, pc, err, lb, previous, todo, done, failed, star_set,
                   caller, announced, sinceSeed, seedLb, kills, msg, env>>

\* upstream drops a star it listed before
RemoveStar ==
    /\ removed < MaxRemoved
    /\ removed' = removed + 1
    /\ \E e \in remote : remote' = remote \ {e}
    /\ UNCHANGED <<file, pc, err, lb, previous, todo, done, failed, star_set,
                   caller, announced, sinceSeed, seedLb, kills, msg, board,
                   month, out, text, sumCalls>>

----------------------------------------------------------------------------
(* main, lines 148-161 *)

MainSkipSeed ==
    /\ pc = "main"
    /\ file.exists
    /\ pc' = "sched"
    /\ UNCHANGED <<remote, file, err, lb, previous, todo, done, failed,
                   star_set, caller, announced, sinceSeed, seedLb, kills,
                   msg, env>>

MainSeedFetchFails ==
    /\ pc = "main"
    /\ ~file.exists
    /\ Raise("HTTPError:151")
    /\ UNCHANGED <<remote, file, announced, sinceSeed, seedLb, kills, env>>

\* mutant: main creates the state file without the fetched stars
MainSeed_Empty ==
    /\ pc = "main"
    /\ ~file.exists
    /\ lb' = remote
    /\ star_set' = {}
    /\ caller' = "main"
    /\ pc' = "save"
    /\ UNCHANGED <<remote, file, err, previous, todo, done, failed,
                   announced, sinceSeed, seedLb, kills, msg, env>>

MainSeed ==
    /\ pc = "main"
    /\ ~file.exists
    /\ lb' = remote
    /\ star_set' = extract_star_set(remote)
    /\ caller' = "main"
    /\ pc' = "save"
    /\ UNCHANGED <<remote, file, err, previous, todo, done, failed,
                   announced, sinceSeed, seedLb, kills, msg, env>>

----------------------------------------------------------------------------
(* save_star_set, lines 62-65 *)

SaveSortRaises ==
    /\ pc = "save"
    /\ SortRaises(star_set)
    /\ Raise("TypeError:63")
    /\ UNCHANGED <<remote, file, announced, sinceSeed, seedLb, kills, env>>

\* STATE_FILE.open("w") truncates the file
SaveOpen ==
    /\ pc = "save"
    /\ ~SortRaises(star_set)
    /\ file' = [exists |-> TRUE, complete |-> FALSE, rows |-> <<>>]
    /\ pc' = "dump"
    /\ UNCHANGED <<remote, err, lb, previous, todo, done, failed, star_set,
                   caller, announced, sinceSeed, seedLb, kills, msg, env>>

\* json.dump and the close of the with block; save returns to its caller,
\* which in both cases ends up in the scheduler loop
SaveDump ==
    /\ pc = "dump"
    /\ file' = [exists |-> TRUE, complete |-> TRUE,
                rows |-> SortedRows(star_set)]
    /\ pc' = "sched"
    /\ IF caller = "main"
         THEN sinceSeed' = "seeded" /\ seedLb' = lb
         ELSE UNCHANGED <<sinceSeed, seedLb>>
    /\ ResetLocals
    /\ UNCHANGED <<remote, err, announced, kills, env>>

----------------------------------------------------------------------------
(* job_check_new_stars, lines 82-111, run by schedule.run_pending() *)

\* history of the cycles whose fetch succeeded since main seeded the file
CycleCounted ==
    /\ sinceSeed' = CASE sinceSeed = "seeded" -> "first_done"
                      [] sinceSeed = "first_done" -> "later"
                      [] OTHER -> sinceSeed
    /\ seedLb' = IF sinceSeed = "first_done" THEN {} ELSE seedLb

JobFetchFails ==
    /\ pc = "sched"
    /\ Raise("HTTPError:84")
    /\ UNCHANGED <<remote, file, announced, sinceSeed, seedLb, kills, env>>

JobLoadRaises ==
    /\ pc = "sched"
    /\ LoadRaises(file)
    /\ Raise("JSONDecodeError:58")
    /\ CycleCounted
    /\ UNCHANGED <<remote, file, announced, kills, env>>

JobNoNew ==
    /\ pc = "sched"
    /\ ~LoadRaises(file)
    /\ new_stars(extract_star_set(remote), load_previous_star_set(file)) = {}
    /\ CycleCounted
    /\ UNCHANGED <<remote, file, pc, err, lb, previous, todo, done, failed,
                   star_set, caller, announced, kills, msg, env>>

JobKeySortRaises ==
    /\ pc = "sched"
    /\ ~LoadRaises(file)
    /\ KeySortRaises(new_stars(extract_star_set(remote),
                               load_previous_star_set(file)))
    /\ Raise("TypeError:98")
    /\ CycleCounted
    /\ UNCHANGED <<remote, file, announced, kills, env>>

JobStart ==
    /\ pc = "sched"
    /\ ~LoadRaises(file)
    /\ LET new == new_stars(extract_star_set(remote),
                            load_previous_star_set(file))
       IN  /\ new # {}
           /\ ~KeySortRaises(new)
           /\ todo' \in KeySorted(new)
    /\ lb' = remote
    /\ previous' = load_previous_star_set(file)
    /\ done' = <<>>
    /\ failed' = {}
    /\ pc' = "job_post"
    /\ CycleCounted
    /\ UNCHANGED <<remote, file, err, star_set, caller, announced, kills, msg,
                   env>>

\* dt.datetime.fromtimestamp(None, tzinfo)
JobStampRaises ==
    /\ pc = "job_post"
    /\ Head(todo)[3] = None
    /\ Raise("TypeError:102")
    /\ UNCHANGED <<remote, file, announced, sinceSeed, seedLb, kills, env>>

\* mutant: save_star_set is called inside the loop, after the first post
AfterPost_SaveEarly ==
    /\ done' = Append(done, Head(todo))
    /\ todo' = Tail(todo)
    /\ announced' = Bump(Head(todo))
    /\ msg' = Message(board, Head(todo))
    /\ pc' = "save"
    /\ star_set' = extract_star_set(lb)
    /\ caller' = "job"

\* after the last iteration line 111 calls save_star_set(current)
AfterPost ==
    /\ done' = Append(done, Head(todo))
    /\ todo' = Tail(todo)
    /\ announced' = Bump(Head(todo))
    /\ msg' = Message(board, Head(todo))
    /\ IF Tail(todo) = <<>>
         THEN /\ pc' = "save"
              /\ star_set' = extract_star_set(lb)
              /\ caller' = "job"
         ELSE UNCHANGED <<pc, star_set, caller>>

JobPostOk ==
    /\ pc = "job_post"
    /\ Head(todo)[3] # None
    /\ AfterPost
    /\ UNCHANGED <<remote, file, err, lb, previous, failed, sinceSeed,
                   seedLb, kills, env>>

\* mutant: slack_post lets the failure propagate
JobPostFails_Raises ==
    /\ pc = "job_post"
    /\ Head(todo)[3] # None
    /\ announced' = Bump(Head(todo))
    /\ failed' = failed \cup {Head(todo)}
    /\ pc' = "exited"
    /\ err' = "RequestException:73"
    /\ lb' = {} /\ previous' = {} /\ todo' = <<>> /\ done' = <<>>
    /\ star_set' = {} /\ caller' = "none" /\ msg' = NoMsg
    /\ UNCHANGED <<remote, file, sinceSeed, seedLb, kills, env>>

\* slack_post logs a non-2xx response or an exception and returns
JobPostFails ==
    /\ pc = "job_post"
    /\ Head(todo)[3] # None
    /\ AfterPost
    /\ failed' = failed \cup {Head(todo)}
    /\ UNCHANGED <<remote, file, err, lb, previous, sinceSeed, seedLb, kills,
                   env>>

----------------------------------------------------------------------------
(* job_daily_summary, lines 114-145, run by schedule.run_pending() *)

\* members.sort(key=local_score, reverse=True): stable, so records of equal
\* score keep their payload order
RECURSIVE SortedByScore(_)
SortedByScore(members) ==
    IF members = <<>> THEN <<>>
    ELSE LET rest == SortedByScore(SubSeq(members, 1, Len(members) - 1))
             m == members[Len(members)]
             k == Cardinality({i \in DOMAIN rest : rest[i].score >= m.score})
         IN  SubSeq(rest, 1, k) \o <<m>> \o SubSeq(rest, k + 1, Len(rest))

\* mutant: strict positional rank
RECURSIVE RankLoop_Positional(_, _, _, _)
RankLoop_Positional(members, idx, rank, prev_score) ==
    IF idx > Len(members) THEN <<>>
    ELSE <<[rank |-> idx, name |-> member_name(members[idx]),
            score |-> members[idx].score]>>
         \o RankLoop_Positional(members, idx + 1, idx, members[idx].score)

\* the loop of lines 131-140 from position idx on
RECURSIVE RankLoop(_, _, _, _)
RankLoop(members, idx, rank, prev_score) ==
    IF idx > Len(members) THEN <<>>
    ELSE LET score == members[idx].score
             r == IF score # prev_score THEN idx ELSE rank
         IN  <<[rank |-> r, name |-> member_name(members[idx]),
                score |-> score]>>
             \o RankLoop(members, idx + 1, r, score)

Lines(members) == RankLoop(SortedByScore(members), 1, 0, None)

Count(n) == IF n < MaxCount THEN n + 1 ELSE n

\* mutant: the month is not looked at
SummarySkip_PostsAnyway ==
    /\ pc = "sched"
    /\ month # 12
    /\ board # <<>>
    /\ out' = "Posting daily summary"
    /\ text' = Lines(board)
    /\ sumCalls' = [fetch |-> Count(sumCalls.fetch),
                    post |-> Count(sumCalls.post)]
    /\ UNCHANGED <<remote, file, pc, err, lb, previous, todo, done, failed,
                   star_set, caller, announced, sinceSeed, seedLb, kills, msg,
                   board, month, removed>>

\* lines 115-118
SummarySkip ==
    /\ pc = "sched"
    /\ month # 12
    /\ out' = "Not december yet, so no board posted."
    /\ UNCHANGED <<remote, file, pc, err, lb, previous, todo, done, failed,
                   star_set, caller, announced, sinceSeed, seedLb, kills, msg,
                   board, month, text, sumCalls, removed>>

SummaryFetchFails ==
    /\ pc = "sched"
    /\ month = 12
    /\ out' = "[job_daily_summary] Running..."
    /\ sumCalls' = [sumCalls EXCEPT !.fetch = Count(@)]
    /\ Raise("HTTPError:120")
    /\ UNCHANGED <<remote, file, announced, sinceSeed, seedLb, kills, board,
                   month, text, removed>>

\* max() of an empty sequence, line 124
SummaryMaxRaises ==
    /\ pc = "sched"
    /\ month = 12
    /\ board = <<>>
    /\ out' = "[job_daily_summary] Running..."
    /\ sumCalls' = [sumCalls EXCEPT !.fetch = Count(@)]
    /\ Raise("ValueError:124")
    /\ UNCHANGED <<remote, file, announced, sinceSeed, seedLb, kills, board,
                   month, text, removed>>

\* lines 119-145; slack_post swallows a failed delivery
SummaryPost ==
    /\ pc = "sched"
    /\ month = 12
    /\ board # <<>>
    /\ out' = "Posting daily summary"
    /\ text' = Lines(board)
    /\ sumCalls' = [fetch |-> Count(sumCalls.fetch),
                    post |-> Count(sumCalls.post)]
    /\ UNCHANGED <<remote, file, pc, err, lb, previous, todo, done, failed,
                   star_set, caller, announced, sinceSeed, seedLb, kills, msg,
                   board, month, removed>>

----------------------------------------------------------------------------
(* The environment of the process *)

Prefixes(s) == {SubSeq(s, 1, n) : n \in 0..Len(s)}

\* the process is killed; a kill during json.dump leaves a partial file
Kill ==
    /\ pc \in {"main", "sched", "job_post", "save", "dump"}
    /\ kills < MaxKills
    /\ kills' = kills + 1
    /\ pc' = "killed"
    /\ IF pc = "dump"
         THEN \E p \in Prefixes(SortedRows(star_set)) :
                 file' = [exists |-> TRUE, complete |-> FALSE, rows |-> p]
         ELSE UNCHANGED file
    /\ ResetLocals
    /\ UNCHANGED <<remote, err, announced, sinceSeed, seedLb, env>>

Restart ==
    /\ pc \in {"killed", "exited"}
    /\ pc' = "main"
    /\ err' = "none"
    /\ UNCHANGED <<remote, file, lb, previous, todo, done, failed, star_set,
                   caller, announced, sinceSeed, seedLb, kills, msg, env>>

----------------------------------------------------------------------------
Next ==
    \/ AddStar
    \/ MainSkipSeed
    \/ MainSeedFetchFails
    \/ MainSeed
    \/ SaveSortRaises
    \/ SaveOpen
    \/ SaveDump
    \/ JobFetchFails
    \/ JobLoadRaises
    \/ JobNoNew
    \/ JobKeySortRaises
    \/ JobStart
    \/ JobStampRaises
    \/ JobPostOk
    \/ JobPostFails
    \/ Kill
    \/ Restart

Spec == Init /\ [][Next]_vars

\* Scheduling: a stopped process is started again, main and every step of a
\* running job are taken, ticks keep coming, and of the fetches that keep
\* being made some succeed.
Fairness ==
    /\ WF_vars(Restart)
    /\ WF_vars(MainSkipSeed)
    /\ SF_vars(MainSeed)
    /\ WF_vars(SaveSortRaises \/ SaveOpen)
    /\ WF_vars(SaveDump)
    /\ SF_vars(JobLoadRaises \/ JobNoNew \/ JobKeySortRaises \/ JobStart)
    /\ WF_vars(JobStampRaises \/ JobPostOk \/ JobPostFails)

FairSpec == Spec /\ Fairness

\* One change-detection cycle on every pair of a persisted snapshot and a
\* fetched payload: the state file holds what save_star_set wrote for some
\* payload, the leaderboard now serves any other payload.
Payloads ==
    {r \in SUBSET Entries :
        /\ Cardinality(r) <= MaxStars
        /\ \A x, y \in r :
              (x.member = y.member /\ x.day = y.day /\ x.part = y.part)
                  => x = y}

InitDiff ==
    /\ remote \in Payloads
    /\ seedLb \in Payloads
    /\ ~SortRaises(extract_star_set(seedLb))
    /\ file = [exists |-> TRUE, complete |-> TRUE,
               rows |-> SortedRows(extract_star_set(seedLb))]
    /\ pc = "sched"
    /\ err = "none"
    /\ lb = {}
    /\ previous = {}
    /\ todo = <<>>
    /\ done = <<>>
    /\ failed = {}
    /\ star_set = {}
    /\ caller = "none"
    /\ announced = [f \in Facts |-> 0]
    /\ sinceSeed = "seeded"
    /\ kills = 0
    /\ msg = NoMsg
    /\ board = HomeBoard
    /\ month = 12
    /\ out = ""
    /\ text = <<>>
    /\ sumCalls = [fetch |-> 0, post |-> 0]
    /\ removed = 0

NextDiff ==
    \/ JobNoNew
    \/ JobKeySortRaises
    \/ JobStart
    \/ JobStampRaises
    \/ JobPostOk
    \/ JobPostFails
    \/ SaveSortRaises
    \/ SaveOpen
    \/ SaveDump

SpecDiff == InitDiff /\ [][NextDiff]_vars

\* The ranking-summary job on every list of member records and in and out
\* of December, in a process whose state file was seeded from a leaderboard
\* without stars. board = <<>> stands for a payload whose "members" mapping
\* is empty or missing: lb.get("members", {}) gives the same for both.
InitSummary ==
    /\ board \in BoardsOf([id : Ids, name : {NullName, "Ann"},
                            score : Scores])
    /\ month \in {11, 12}
    /\ remote = {}
    /\ seedLb = {}
    /\ file = [exists |-> TRUE, complete |-> TRUE, rows |-> <<>>]
    /\ pc = "sched"
    /\ err = "none"
    /\ lb = {}
    /\ previous = {}
    /\ todo = <<>>
    /\ done = <<>>
    /\ failed = {}
    /\ star_set = {}
    /\ caller = "none"
    /\ announced = [f \in Facts |-> 0]
    /\ sinceSeed = "seeded"
    /\ kills = 0
    /\ msg = NoMsg
    /\ out = ""
    /\ text = <<>>
    /\ sumCalls = [fetch |-> 0, post |-> 0]
    /\ removed = 0

NextSummary ==
    \/ SummarySkip
    \/ SummaryFetchFails
    \/ SummaryMaxRaises
    \/ SummaryPost

SpecSummary == InitSummary /\ [][NextSummary]_vars

\* Both jobs in December on every list of member records, named or not,
\* with or without a record for the member whose star is new.
InitNames ==
    /\ board \in BoardsOf([id : Ids, name : Names, score : {10}])
    /\ month = 12
    /\ remote \in {{}} \cup
           {{[member |-> m, day |-> "1", part |-> "1", ts |-> 1]} :
               m \in Members}
    /\ seedLb = {}
    /\ file = [exists |-> TRUE, complete |-> TRUE, rows |-> <<>>]
    /\ pc = "sched"
    /\ err = "none"
    /\ lb = {}
    /\ previous = {}
    /\ todo = <<>>
    /\ done = <<>>
    /\ failed = {}
    /\ star_set = {}
    /\ caller = "none"
    /\ announced = [f \in Facts |-> 0]
    /\ sinceSeed = "seeded"
    /\ kills = 0
    /\ msg = NoMsg
    /\ out = ""
    /\ text = <<>>
    /\ sumCalls = [fetch |-> 0, post |-> 0]
    /\ removed = 0

NextNames ==
    \/ SummaryMaxRaises
    \/ SummaryPost
    \/ JobNoNew
    \/ JobStart
    \/ JobPostOk
    \/ JobPostFails
    \/ SaveOpen
    \/ SaveDump

SpecNames == InitNames /\ [][NextNames]_vars

\* One run of the process, without kills and fetch failures, against a
\* leaderboard that may drop a star it listed before.
NextRetract ==
    \/ AddStar
    \/ RemoveStar
    \/ MainSeed
    \/ SaveSortRaises
    \/ SaveOpen
    \/ SaveDump
    \/ JobNoNew
    \/ JobKeySortRaises
    \/ JobStart
    \/ JobStampRaises
    \/ JobPostOk
    \/ JobPostFails

SpecRetract == Init /\ [][NextRetract]_vars

----------------------------------------------------------------------------
(* Properties *)

Corrupt == file.exists /\ ~file.complete

\* C1: slack_post is invoked at most once for any given Fact, whatever
\* kills and restarts happen, also between the posts and the save.
C1_AtMostOnce == \A f \in Facts : announced[f] <= 1

\* C2: every Fact that is on the leaderboard and missing from the seeded
\* state file is eventually passed to slack_post, given that ticks keep
\* occurring, fetches eventually succeed and a stopped process is restarted.
C2_EventuallyAnnounced ==
    \A f \in Facts :
        (/\ f \in extract_star_set(remote)
         /\ file.exists /\ file.complete
         /\ f \notin load_previous_star_set(file))
            ~> (announced[f] >= 1)

\* C3 as claimed: the Facts a cycle treats as new are exactly the fetched
\* Facts whose (member, day, part) does not occur in the persisted snapshot.
C3_DiffByTriple ==
    pc = "job_post" =>
        Range(done) \cup Range(todo) =
            {f \in extract_star_set(lb) :
                \A g \in load_previous_star_set(file) : Triple(g) # Triple(f)}

\* C3 amended: the Facts a cycle treats as new are exactly the fetched Facts
\* whose full tuple (member, day, timestamp, part) does not occur in the
\* persisted snapshot, so a persisted Fact fetched with another timestamp
\* is reported as new; a cycle ends without announcing only when no fetched
\* tuple is missing from the file.
C3_DiffByFullTuple ==
    /\ [](pc = "job_post" =>
            Range(done) \cup Range(todo) =
                {f \in extract_star_set(lb) :
                    \A r \in Range(file.rows) :
                        <<r[1], r[2], r[3], r[4]>> # f})
    /\ [][(pc = "sched" /\ pc' = "sched" /\ sinceSeed' # sinceSeed)
            => \A e \in remote : \E r \in Range(file.rows) :
                   r = <<e.member, int(e.day), e.ts, int(e.part)>>]_vars

C3_Witness ==
    /\ pc = "job_post"
    /\ \E f \in Range(todo) : \E g \in previous :
          Triple(f) = Triple(g) /\ f[3] # g[3]

\* C4: main on a missing state file persists the fetched snapshot without
\* any slack_post, and the first cycle against the unchanged remote finds
\* nothing new: nothing is announced and the seeded file stays as written.
C4_FirstRunSeeding ==
    /\ sinceSeed = "never" => \A f \in Facts : announced[f] = 0
    /\ (sinceSeed \in {"seeded", "first_done"} /\ remote = seedLb) =>
          /\ \A f \in Facts : announced[f] = 0
          /\ file = [exists |-> TRUE, complete |-> TRUE,
                     rows |-> SortedRows(extract_star_set(seedLb))]
          /\ pc \notin {"job_post", "save", "dump"}
          /\ err \notin {"TypeError:98", "TypeError:102", "TypeError:63",
                         "JSONDecodeError:58"}

C4_Witness ==
    /\ sinceSeed = "first_done"
    /\ seedLb # {}
    /\ remote = seedLb
    /\ pc = "sched"
    /\ kills = 0

\* C5: a fetch_leaderboard failure inside a scheduled cycle ends that cycle
\* with the state file and the announcements unchanged and leaves the
\* process in its scheduler loop.
C5_FetchFailureNotFatal ==
    [][(pc = "sched" /\ err' = "HTTPError:84")
          => (pc' = "sched" /\ file' = file /\ announced' = announced)]_vars

\* C6: a failing slack_post does not raise out of the cycle: the loop goes
\* on with the remaining new Facts, and save_star_set is called with the
\* full fetched snapshot after all of them were handed to slack_post.
C6_NotifierFailureSwallowed ==
    /\ [][(failed' # failed /\ failed' # {})
            => /\ pc' \in {"job_post", "save"}
               /\ err' = "none"
               /\ todo' = Tail(todo)
               /\ done' = Append(done, Head(todo))]_vars
    /\ []((failed # {} /\ pc \in {"save", "dump"})
            => /\ star_set = extract_star_set(lb)
               /\ todo = <<>>
               /\ Range(done) = extract_star_set(lb) \ previous)

C6_Witness ==
    /\ pc = "dump"
    /\ caller = "job"
    /\ Len(done) >= 2
    /\ done[1] \in failed

\* C7: after a kill the state file holds a complete snapshot (or does not
\* exist yet), never truncated or partial content.
C7_AtomicSave == pc = "killed" => ~Corrupt

\* C8: save_star_set(S) never raises, and when it returns
\* load_previous_star_set() gives back S.
C8_RoundTrip ==
    /\ [](err # "TypeError:63")
    /\ [][(pc = "dump" /\ pc' = "sched")
            => load_previous_star_set(file') = star_set]_vars

C10_OnePostPerNewFact ==
    /\ err \notin {"TypeError:98", "TypeError:102"}
    /\ (pc \in {"save", "dump"} /\ caller = "job") =>
          /\ Len(done) = Cardinality(extract_star_set(lb) \ previous)
          /\ Range(done) = extract_star_set(lb) \ previous
          /\ \A i \in DOMAIN done : i > 1 => done[i-1][3] <= done[i][3]

\* C11: the summary lists the members by score descending, and the rank of
\* each line is 1 plus the number of members with a strictly greater score:
\* equal scores share a rank, ranks never decrease down the list and never
\* exceed the position (50, 50, 10 gives 1, 1, 3).
C11_CompetitionRank ==
    out = "Posting daily summary" =>
        /\ Len(text) = Len(board)
        /\ \A r \in Range(board) : \E i \in DOMAIN text :
              text[i].name = member_name(r) /\ text[i].score = r.score
        /\ \A i \in DOMAIN text :
              /\ text[i].rank =
                    1 + Cardinality({j \in DOMAIN board :
                                        board[j].score > text[i].score})
              /\ text[i].rank <= i
              /\ i > 1 => /\ text[i-1].score >= text[i].score
                          /\ text[i-1].rank <= text[i].rank

C11_Witness ==
    /\ out = "Posting daily summary"
    /\ Len(text) = 3
    /\ <<text[1].score, text[2].score, text[3].score>> = <<50, 50, 10>>
    /\ <<text[1].rank, text[2].rank, text[3].rank>> = <<1, 1, 3>>

\* C13: outside December job_daily_summary fetches nothing and posts
\* nothing, and in no month does it change the state file or announce a Fact.
C13_SummaryOnlyInDecember ==
    /\ [][month # 12 => (sumCalls' = sumCalls /\ text' = text /\ pc' = pc)]_vars
    /\ [][file' = file /\ announced' = announced]_vars

C13_Witness ==
    /\ month # 12
    /\ out = "Not december yet, so no board posted."
    /\ board # <<>>
    /\ sumCalls = [fetch |-> 0, post |-> 0]

\* C19: in December, on a payload without members, job_daily_summary
\* returns without raising and the process stays in its scheduler loop.
C19_EmptyBoardSummary ==
    [][(pc = "sched" /\ month = 12 /\ board = <<>> /\ err' # "HTTPError:120")
          => (pc' = "sched" /\ err' = "none")]_vars

\* C12: a cycle whose fetched snapshot holds no Fact missing from the state
\* file returns normally, calls slack_post for nothing and leaves the state
\* file as it is (also when the file holds Facts the fetch no longer has).
C12_EmptyDiffNoOp ==
    [][(/\ pc = "sched"
        /\ file.exists /\ file.complete
        /\ \A e \in remote : \E r \in Range(file.rows) :
              r = <<e.member, int(e.day), e.ts, int(e.part)>>)
          => /\ pc' = "sched"
             /\ err' = "none"
             /\ announced' = announced
             /\ file' = file]_vars

C12_Witness ==
    /\ sinceSeed = "first_done"
    /\ pc = "sched"
    /\ \A f \in Facts : announced[f] = 0
    /\ remote # {}
    /\ extract_star_set(remote) \subseteq load_previous_star_set(file)
    /\ extract_star_set(remote) # load_previous_star_set(file)

Unnamed(r) == r.name \in {NoName, NullName, ""}

NoLabel == {<<>>, <<"">>, <<"None">>, <<NoName>>, <<NullName>>}

\* C14: a member whose name is missing, null or empty is shown as
\* "Anonymous #<id>" in the announcement line and in the ranking, and a
\* Fact whose member has no record as "Member <id>"; the name shown is
\* never empty and never a rendering of None.
C14_NameFallback ==
    /\ msg # NoMsg =>
          LET k == done[Len(done)][1]
              recs == {r \in Range(board) : r.id = k}
          IN  /\ msg.name \notin NoLabel
              /\ \A r \in recs : Unnamed(r) => msg.name = <<"Anonymous #", k>>
              /\ recs = {} => msg.name = <<"Member ", k>>
    /\ out = "Posting daily summary" =>
          /\ \A i \in DOMAIN text : text[i].name \notin NoLabel
          /\ \A r \in Range(board) : Unnamed(r) =>
                \E i \in DOMAIN text : text[i].name = <<"Anonymous #", r.id>>

C14_Witness ==
    /\ msg # NoMsg
    /\ msg.name = <<"Anonymous #", "1">>
    /\ out = "Posting daily summary"
    /\ \E i \in DOMAIN text : text[i].name = <<"Anonymous #", "1">>
    /\ \E r \in Range(board) : r.id = "1" /\ r.name = ""

\* C15: in a cycle with new Facts save_star_set is called once, after every
\* new Fact was passed to slack_post, with the snapshot fetched in that
\* cycle, which is what it writes; the state file changes nowhere else, so
\* a cycle that aborts writes nothing.
C15_PersistAfterAnnounce ==
    /\ []((pc \in {"save", "dump"} /\ caller = "job")
            => /\ todo = <<>>
               /\ Len(done) = Cardinality(extract_star_set(lb) \ previous)
               /\ Range(done) = extract_star_set(lb) \ previous
               /\ \A f \in Range(done) : announced[f] >= 1
               /\ star_set = extract_star_set(lb))
    /\ [][file' # file => pc \in {"save", "dump"}]_vars
    /\ [][(pc = "dump" /\ pc' = "sched" /\ caller = "job")
            => load_previous_star_set(file') = extract_star_set(lb)]_vars

C15_Witness ==
    /\ pc = "dump"
    /\ caller = "job"
    /\ Len(done) >= 2
    /\ failed = {}

\* C16: what a cycle persists still holds every Fact that was persisted
\* before it, also when the fetch no longer has it; so a Fact that was
\* passed to slack_post once is never passed to it again when it leaves
\* the leaderboard and comes back.
C16_RetractionIgnored ==
    /\ [][(pc = "dump" /\ pc' = "sched" /\ caller = "job")
            => previous \subseteq load_previous_star_set(file')]_vars
    /\ [][\A f \in Facts :
            announced[f] >= 1 => announced'[f] = announced[f]]_vars

\* C17: a cycle whose new Facts include one without timestamp still reaches
\* the posts and passes that Fact to slack_post instead of raising.
C17_AbsentTimestampTolerated ==
    /\ [][(/\ pc = "sched"
            /\ \E f \in extract_star_set(remote)
                            \ load_previous_star_set(file) : f[3] = None)
              => pc' = "job_post"]_vars
    /\ [][(pc = "job_post" /\ Head(todo)[3] = None)
              => (pc' # "exited" /\ announced'[Head(todo)] >= 1)]_vars

UniqueTriples(S) == \A a, b \in S : Triple(a) = Triple(b) => a = b

\* C18: no snapshot built by extract_star_set, and so neither the argument
\* of save_star_set nor the content of the state file, holds two distinct
\* Facts with the same (member, day, part).
C18_UniqueTriple ==
    /\ UniqueTriples(extract_star_set(remote))
    /\ UniqueTriples(extract_star_set(lb))
    /\ UniqueTriples(star_set)
    /\ UniqueTriples(previous)
    /\ UniqueTriples(load_previous_star_set(file))

C18_Witness ==
    /\ file.complete
    /\ pc = "sched"
    /\ \E a, b \in load_previous_star_set(file) :
          a[1] = b[1] /\ a[2] = b[2] /\ a[4] # b[4]

====
